---- MODULE Spec2Model ----
(***************************************************************************)
(* FileZee: temporary file storage service (Express + multer).             *)
(*                                                                         *)
(* The model follows the Node.js execution of the request handlers and of  *)
(* the lifecycle sweeper.  JavaScript between two awaits runs atomically;  *)
(* every filesystem operation (unlink, readFile, writeFile, readdir,       *)
(* access) takes effect in a step of its own, at some point after the      *)
(* handler has issued it and before the handler continues.  A step that    *)
(* models a filesystem effect also carries the handler's purely local      *)
(* bookkeeping that follows it (setting the response, counting); code that *)
(* reads or writes the in-memory metadata Map is always a separate step.   *)
(*                                                                         *)
(* Filesystem failures: an unlink of a missing file throws ENOENT; beyond  *)
(* that, up to MaxFaults operations among unlink, readFile and writeFile   *)
(* fail for another reason (EACCES, EPERM, EBUSY, ENOSPC) and leave the    *)
(* filesystem as it was.  fs.access and fs.readdir do not fail that way.   *)
(* The clock may move within addFile, between its two readings.            *)
(*                                                                         *)
(* The metadata store is initialised before the server listens, so the     *)
(* `initialized` guards of its methods are passed.  File names produced by *)
(* generateUniqueFilename never repeat: upload u writes file u.  Uploads   *)
(* stay within the single-file size limit of multer.                       *)
(*                                                                         *)
(* Specifications:                                                         *)
(*   Spec         uploads, DELETE and the sweeper in every interleaving    *)
(*   SpecSeq      the same, with each upload sent after the previous       *)
(*                answer                                                   *)
(*   SpecRace     Spec with the overlap of the uploads recorded            *)
(*   SpecRead     uploads, DELETE, a GET, files removed from outside       *)
(*   SpecSweep    uploads and sweeps that do not interleave, the upload    *)
(*                directory changed from outside, each run recorded        *)
(*   SpecService  start(), stop(), the interval timer and runCleanup after *)
(*                a restart, with fairness of the timer and of the steps   *)
(*                of a run                                                 *)
(*   SpecRound    uploads, a GET and the sweeper in every interleaving,    *)
(*                the record made for each upload recorded                 *)
(*   SpecOverlap  the service after a restart with two invocations of      *)
(*                runCleanup under way at once                             *)
(*   SpecRestart  uploads and DELETE, the server process ended and started *)
(*                again while no request is in progress, initialize()      *)
(*                called again                                             *)
(*   SpecLate     uploads, DELETE and a GET with the clock moving and no   *)
(*                sweeper, the expiry of the record looked up recorded     *)
(***************************************************************************)
EXTENDS Integers, Sequences, FiniteSets, TLC

(* ---------------------------- bounds ----------------------------------- *)
NumUploads == 2
MaxTime == 1
MaxFaults == 1
MaxRestarts == 1

Uploads == 1..NumUploads

(* file names: upload u is stored under the name u; the upload directory   *)
(* can also hold '.gitkeep' and a file that no upload wrote                *)
GitKeep == 0
StrayFile == NumUploads + 1

(* ------------------------ configuration -------------------------------- *)
maxStorageBytes == 2
fileRetentionMs == 1
allowedMimeTypes == {"image/png", "image/gif"}
blockedExtensions == {".exe"}

MimeTypes == {"image/png", "application/x-msdownload"}
(* the bodies a client sends: the type file-type detects in the bytes     *)
(* ("none" when no signature matches) and the byte length                  *)
Bodies ==
  {[sig |-> "none", size |-> 1],
   [sig |-> "image/png", size |-> 2],
   [sig |-> "image/gif", size |-> 1],
   [sig |-> "application/x-msdownload", size |-> 2]}
Extensions == {".png", ".EXE"}

VARIABLES
  clock,      \* Date.now()
  metadata,   \* FileMetadataStore.metadata: Map in insertion order
  snapshot,   \* contents of metadata/files.json
  disk,       \* upload directory: file name -> [size, sig]
  up,         \* one POST /upload request per element of Uploads; resp is
              \* the answer, sent when pc = "done"
  sw,         \* the runCleanup invocation of the lifecycle service
  del,        \* a DELETE /files/:fileId request
  faults,     \* number of filesystem operations that failed so far
  get,        \* a GET /files/:fileId or GET /download/:fileId request
  svc,        \* LifecycleService: isRunning, cleanupTimer, and a second
              \* runCleanup invocation next to sw; the process number
              \* and FileMetadataStore.initialized
  hist        \* history of the run, read by the properties only

vars == <<clock, metadata, snapshot, disk, up, sw, del, faults, get, svc, hist>>

(* ----------------------------- helpers --------------------------------- *)
Range(s) == {s[i] : i \in DOMAIN s}

toLowerCase(ext) == IF ext = ".EXE" THEN ".exe" ELSE ext

(* Map operations of FileMetadataStore.metadata *)
MapIds(m) == {m[i].id : i \in DOMAIN m}
MapHas(m, id) == id \in MapIds(m)
MapGet(m, id) == CHOOSE r \in Range(m) : r.id = id
(* a set that starts from an empty Map instead of the current one *)
MapSet_FromEmpty(m, rec) == <<rec>>

MapSet(m, rec) ==
  IF MapHas(m, rec.id)
    THEN [i \in DOMAIN m |-> IF m[i].id = rec.id THEN rec ELSE m[i]]
    ELSE Append(m, rec)
MapDelete(m, id) == SelectSeq(m, LAMBDA r : r.id # id)

(* fs operations on the upload directory *)
Exists(d, name) == name \in DOMAIN d
WriteFile(d, name, file) ==
  [n \in DOMAIN d \cup {name} |-> IF n = name THEN file ELSE d[n]]
Unlink(d, name) == [n \in DOMAIN d \ {name} |-> d[n]]

RECURSIVE SumSizes(_)
SumSizes(m) == IF m = <<>> THEN 0 ELSE Head(m).size + SumSizes(Tail(m))

getTotalStorageUsed(m) == SumSizes(m)

(* the comparison made strict: a record expiring now is not yet returned *)
getExpiredFiles_Strict(m, now) == SelectSeq(m, LAMBDA r : r.expiresAt < now)

getExpiredFiles(m, now) == SelectSeq(m, LAMBDA r : r.expiresAt <= now)

(* a record built without the byte length of the stored file *)
NewRecord_NoSize(id, mimetype, size, created, now) ==
  [id |-> id, mimeType |-> mimetype, size |-> 0,
   uploadedAt |-> created, expiresAt |-> now + fileRetentionMs]

(* the record of addFile: uploadedAt is new Date(), expiresAt is           *)
(* Date.now() + config.fileRetentionMs, two readings of the clock          *)
NewRecord(id, mimetype, size, created, now) ==
  [id |-> id, mimeType |-> mimetype, size |-> size,
   uploadedAt |-> created, expiresAt |-> now + fileRetentionMs]

(* The codes of the filesystem failures counted by `faults`: one that the  *)
(* error handler answers with a fixed text and one that it does not know.  *)
FaultCodes == {"EACCES", "EIO"}

(* errorHandler on an error of a filesystem call, which has no status:     *)
(* ENOENT is 404 'File not found', EACCES and EPERM are 500 'Permission    *)
(* denied accessing file', any other code is 500 with err.message          *)
errorHandler(code) ==
  IF code = "ENOENT" THEN "NotFound"
  ELSE IF code \in {"EACCES", "EPERM"} THEN "PermissionDenied"
  ELSE "ServerError"

(* the answers of the error handler to the failures counted by `faults` *)
FaultAnswers == {errorHandler(code) : code \in FaultCodes}

(* the declared type looked at before the extension *)
fileFilter_TypeFirst(ext, mimetype) ==
  IF mimetype \notin allowedMimeTypes THEN "TypeNotAllowed"
  ELSE IF toLowerCase(ext) \in blockedExtensions THEN "ExtensionBlocked"
  ELSE "accept"

(* multer fileFilter: the verdict on the request headers *)
fileFilter(ext, mimetype) ==
  IF toLowerCase(ext) \in blockedExtensions THEN "ExtensionBlocked"
  ELSE IF mimetype \notin allowedMimeTypes THEN "TypeNotAllowed"
  ELSE "accept"

(* the allow-list test placed before the comparison with the claimed type *)
SniffVerdict_AllowListFirst(detected, mimetype) ==
  IF detected # "none"
    THEN IF detected \notin allowedMimeTypes THEN "ActualTypeNotAllowed"
         ELSE IF detected # mimetype THEN "TypeMismatch"
         ELSE "next"
    ELSE "next"

(* bytes without a known signature treated as a mismatch *)
SniffVerdict_RejectsUnknown(detected, mimetype) ==
  IF detected # mimetype THEN "TypeMismatch"
  ELSE IF detected \notin allowedMimeTypes THEN "ActualTypeNotAllowed"
  ELSE "next"

(* validateFileMimeType: the verdict once the bytes have been read *)
SniffVerdict(detected, mimetype) ==
  IF detected # "none"
    THEN IF detected # mimetype THEN "TypeMismatch"
         ELSE IF detected \notin allowedMimeTypes THEN "ActualTypeNotAllowed"
         ELSE "next"
    ELSE "next"

(* the comparison made on the stored total alone *)
OverLimit_IgnoresIncoming(currentUsage, incomingSize) ==
  currentUsage > maxStorageBytes

(* checkStorageLimit: the comparison *)
OverLimit(currentUsage, incomingSize) ==
  currentUsage + incomingSize > maxStorageBytes

(* ------------------------------ Init ----------------------------------- *)
UpIdle ==
  [pc |-> "start", ext |-> ".png", mimetype |-> "image/png", sig |-> "none",
   size |-> 0, usage |-> 0, detected |-> "none", snap |-> <<>>,
   resp |-> "none"]

SwIdle ==
  [pc |-> "idle", expired |-> <<>>, deletedCount |-> 0, visited |-> {},
   orphaned |-> <<>>, cur |-> 0, todo |-> {}, orphanedFiles |-> 0,
   snap |-> <<>>,
   result |-> [success |-> TRUE, expiredFiles |-> 0, orphanedMetadata |-> 0,
               orphanedFiles |-> 0]]

DelIdle == [pc |-> "idle", id |-> 0, snap |-> <<>>, resp |-> "none"]

GetIdle ==
  [pc |-> "idle", route |-> "none", id |-> 0, onDisk |-> "unknown",
   snap |-> <<>>, resp |-> "none", file |-> <<>>, body |-> <<>>,
   removed |-> FALSE]

(* the service object as constructed: not running, no timer; `other` is   *)
(* a second invocation of runCleanup, when two are under way at once.      *)
(* With it, the number of the server process and the `initialized` flag of *)
(* the metadata store once startServer has awaited initialize().           *)
SvcIdle ==
  [isRunning |-> FALSE, cleanupTimer |-> "null", other |-> SwIdle,
   pid |-> 0, initialized |-> TRUE]

(* History, of the kind that `track` names in the initial state:           *)
(*   ahead[u]  the uploads that were between their quota check and their   *)
(*             addFile when upload u passed its own quota check            *)
(*   ran .. scan  the last call of runCleanup: the clock, the expired ids, *)
(*             the fault count and the answered uploads when it began;     *)
(*             whether it began right after a successful run with nothing  *)
(*             in between, and then the store, the snapshot and the        *)
(*             directory it began with; whether the directory was changed  *)
(*             from outside since it began; the files without a record     *)
(*             when it listed the directory                                *)
(*   by        what called runCleanup last: start(), the interval timer    *)
(*             or a caller on demand                                       *)
(*   made[u]   the record that addFile returned to the handler of upload u *)
(*   late      the record that the GET asked for was in the store and past *)
(*             its expiresAt when the GET looked it up                     *)
HistInit ==
  [track |-> "none", ahead |-> [u \in Uploads |-> {}],
   ran |-> FALSE, startedAt |-> 0, startExpired |-> {}, startFaults |-> 0,
   startDone |-> {}, follows |-> FALSE, base |-> <<>>, ext |-> FALSE,
   scan |-> {}, by |-> "none", made |-> [u \in Uploads |-> <<>>],
   late |-> FALSE]

Constructed ==
  /\ clock = 0
  /\ metadata = <<>>
  /\ snapshot = <<>>
  /\ disk = <<>>
  /\ up = [u \in Uploads |-> UpIdle]
  /\ sw = SwIdle
  /\ del = DelIdle
  /\ faults = 0
  /\ get = GetIdle
  /\ svc = SvcIdle

Init == Constructed /\ hist = HistInit

InitSweep == Constructed /\ hist = [HistInit EXCEPT !.track = "sweep"]

InitRace == Constructed /\ hist = [HistInit EXCEPT !.track = "ahead"]

(* --------------------------- POST /upload ------------------------------ *)
(* upload.single('file'): fileFilter on the headers, then the body is      *)
(* streamed to the upload directory under a fresh unique name.  Requests   *)
(* are numbered in the order in which they arrive.                         *)
Receive(u) ==
  /\ up[u].pc = "start"
  /\ IF u = 1 THEN TRUE ELSE up[u - 1].pc # "start"
  /\ \E ext \in Extensions, mt \in MimeTypes :
       LET v == fileFilter(ext, mt) IN
       IF v # "accept"
         THEN /\ up' = [up EXCEPT ![u] =
                   [@ EXCEPT !.pc = "done", !.ext = ext, !.mimetype = mt,
                             !.resp = v]]
              /\ disk' = disk
         ELSE \E body \in Bodies :
              /\ up' = [up EXCEPT ![u] =
                   [@ EXCEPT !.pc = "quota", !.ext = ext, !.mimetype = mt,
                             !.sig = body.sig, !.size = body.size]]
              /\ disk' = WriteFile(disk, u, body)
  /\ UNCHANGED <<clock, metadata, snapshot, sw, del, faults>>
  /\ UNCHANGED <<get, svc, hist>>

(* the uploads that have passed the quota check and not yet reached addFile *)
BeforeAddFile == {v \in Uploads : up[v].pc \in {"sniffRead", "add"}}

(* checkStorageLimit: getTotalStorageUsed(), the comparison, and either    *)
(* the unlink or next() into validateFileMimeType, which issues readFile.  *)
CheckStorageLimit(u) ==
  /\ up[u].pc = "quota"
  /\ LET currentUsage == getTotalStorageUsed(metadata)
         over == OverLimit(currentUsage, up[u].size)
     IN /\ up' = [up EXCEPT ![u] =
              [@ EXCEPT !.usage = currentUsage,
                        !.pc = IF over THEN "quotaUnlink" ELSE "sniffRead"]]
        /\ hist' = IF hist.track = "ahead" /\ ~over
                     THEN [hist EXCEPT !.ahead[u] = BeforeAddFile]
                     ELSE hist
  /\ UNCHANGED <<clock, metadata, snapshot, disk, sw, del, faults>>
  /\ UNCHANGED <<get, svc>>

(* the unlink of checkStorageLimit; a throw lands in its catch (500)       *)
QuotaUnlink(u) ==
  /\ up[u].pc = "quotaUnlink"
  /\ \/ /\ Exists(disk, u)
        /\ disk' = Unlink(disk, u)
        /\ up' = [up EXCEPT ![u] = [@ EXCEPT !.pc = "done", !.resp = "StorageExceeded"]]
        /\ faults' = faults
     \/ /\ ~Exists(disk, u)
        /\ up' = [up EXCEPT ![u] = [@ EXCEPT !.pc = "done", !.resp = "QuotaCheckFailed"]]
        /\ UNCHANGED <<disk, faults>>
     \/ /\ Exists(disk, u)
        /\ faults < MaxFaults
        /\ faults' = faults + 1
        /\ up' = [up EXCEPT ![u] = [@ EXCEPT !.pc = "done", !.resp = "QuotaCheckFailed"]]
        /\ disk' = disk
  /\ UNCHANGED <<clock, metadata, snapshot, sw, del>>
  /\ UNCHANGED <<get, svc, hist>>

(* validateFileMimeType: readFile, FileType.fromBuffer and the checks      *)
SniffRead(u) ==
  /\ up[u].pc = "sniffRead"
  /\ \/ /\ Exists(disk, u)
        /\ LET v == SniffVerdict(disk[u].sig, up[u].mimetype) IN
             up' = [up EXCEPT ![u] =
               [@ EXCEPT !.pc = IF v = "next" THEN "add" ELSE "sniffUnlink",
                         !.detected = disk[u].sig,
                         !.resp = IF v = "next" THEN "none" ELSE v]]
        /\ faults' = faults
     \/ /\ ~Exists(disk, u)
        /\ up' = [up EXCEPT ![u] = [@ EXCEPT !.pc = "sniffCatch"]]
        /\ faults' = faults
     \/ /\ Exists(disk, u)
        /\ faults < MaxFaults
        /\ faults' = faults + 1
        /\ up' = [up EXCEPT ![u] = [@ EXCEPT !.pc = "sniffCatch"]]
  /\ UNCHANGED <<clock, metadata, snapshot, disk, sw, del>>
  /\ UNCHANGED <<get, svc, hist>>

(* the unlink before the 400 answer; a throw lands in the catch block      *)
SniffUnlink(u) ==
  /\ up[u].pc = "sniffUnlink"
  /\ \/ /\ Exists(disk, u)
        /\ disk' = Unlink(disk, u)
        /\ up' = [up EXCEPT ![u] = [@ EXCEPT !.pc = "done"]]
        /\ faults' = faults
     \/ /\ ~Exists(disk, u)
        /\ up' = [up EXCEPT ![u] = [@ EXCEPT !.pc = "sniffCatch"]]
        /\ UNCHANGED <<disk, faults>>
     \/ /\ Exists(disk, u)
        /\ faults < MaxFaults
        /\ faults' = faults + 1
        /\ up' = [up EXCEPT ![u] = [@ EXCEPT !.pc = "sniffCatch"]]
        /\ disk' = disk
  /\ UNCHANGED <<clock, metadata, snapshot, sw, del>>
  /\ UNCHANGED <<get, svc, hist>>

(* catch block: try { unlink } catch {} and the 500 answer                 *)
SniffCatch(u) ==
  /\ up[u].pc = "sniffCatch"
  /\ up' = [up EXCEPT ![u] = [@ EXCEPT !.pc = "done", !.resp = "ValidateFailed"]]
  /\ \/ /\ disk' = Unlink(disk, u)
        /\ faults' = faults
     \/ /\ Exists(disk, u)
        /\ faults < MaxFaults
        /\ faults' = faults + 1
        /\ disk' = disk
  /\ UNCHANGED <<clock, metadata, snapshot, sw, del>>
  /\ UNCHANGED <<get, svc, hist>>

(* addFile up to the await of persist(): the record is put into the Map    *)
(* and persist() takes Array.from(this.metadata.values()).  The clock is   *)
(* read once for uploadedAt and once more for expiresAt, and may have      *)
(* moved on in between.                                                    *)
AddFile(u) ==
  /\ up[u].pc = "add"
  /\ \E later \in {t \in {clock, clock + 1} : t <= MaxTime} :
       /\ clock' = later
       /\ metadata' = MapSet(metadata,
                        NewRecord(u, up[u].mimetype, up[u].size, clock, later))
  /\ up' = [up EXCEPT ![u] = [@ EXCEPT !.pc = "persist", !.snap = metadata']]
  /\ hist' = IF hist.track = "round"
               THEN [hist EXCEPT !.made[u] = <<MapGet(metadata', u)>>]
               ELSE hist
  /\ UNCHANGED <<snapshot, disk, sw, del, faults>>
  /\ UNCHANGED <<get, svc>>

(* fs.writeFile of persist() lands, or fails and the handler calls         *)
(* next(error)                                                             *)
AddPersist(u) ==
  /\ up[u].pc = "persist"
  /\ \/ /\ snapshot' = up[u].snap
        /\ up' = [up EXCEPT ![u] = [@ EXCEPT !.pc = "done", !.snap = <<>>, !.resp = "Created"]]
        /\ faults' = faults
     \/ /\ faults < MaxFaults
        /\ faults' = faults + 1
        /\ snapshot' = snapshot
        /\ \E code \in FaultCodes :
             up' = [up EXCEPT ![u] = [@ EXCEPT !.pc = "done", !.snap = <<>>,
                                               !.resp = errorHandler(code)]]
  /\ UNCHANGED <<clock, metadata, disk, sw, del>>
  /\ UNCHANGED <<get, svc, hist>>

Upload(u) ==
  \/ Receive(u)
  \/ CheckStorageLimit(u)
  \/ QuotaUnlink(u)
  \/ SniffRead(u)
  \/ SniffUnlink(u)
  \/ SniffCatch(u)
  \/ AddFile(u)
  \/ AddPersist(u)

(* ---------------------- DELETE /files/:fileId ------------------------- *)
(* the handler going on to the unlink without looking for the record *)
DeleteStart_NoLookup(id) ==
  /\ del.pc = "idle"
  /\ del' = [del EXCEPT !.pc = "unlink", !.id = id]
  /\ UNCHANGED <<clock, metadata, snapshot, disk, up, sw, faults>>
  /\ UNCHANGED <<get, svc, hist>>

(* getFile(fileId); 404 when there is no record, else the unlink is issued *)
DeleteStart(id) ==
  /\ del.pc = "idle"
  /\ del' = IF MapHas(metadata, id)
              THEN [del EXCEPT !.pc = "unlink", !.id = id]
              ELSE [del EXCEPT !.pc = "done", !.id = id, !.resp = "NotFound"]
  /\ UNCHANGED <<clock, metadata, snapshot, disk, up, sw, faults>>
  /\ UNCHANGED <<get, svc, hist>>

(* every error of the unlink swallowed, not ENOENT alone *)
DeleteUnlink_SwallowsAll ==
  /\ del.pc = "unlink"
  /\ del' = [del EXCEPT !.pc = "delete"]
  /\ \/ /\ disk' = Unlink(disk, del.id)
        /\ faults' = faults
     \/ /\ Exists(disk, del.id)
        /\ faults < MaxFaults
        /\ faults' = faults + 1
        /\ disk' = disk
  /\ UNCHANGED <<clock, metadata, snapshot, up, sw>>
  /\ UNCHANGED <<get, svc, hist>>

(* fs.unlink(file.path): ENOENT is swallowed, any other error is rethrown  *)
DeleteUnlink ==
  /\ del.pc = "unlink"
  /\ \/ /\ disk' = Unlink(disk, del.id)
        /\ del' = [del EXCEPT !.pc = "delete"]
        /\ faults' = faults
     \/ /\ Exists(disk, del.id)
        /\ faults < MaxFaults
        /\ faults' = faults + 1
        /\ disk' = disk
        /\ \E code \in FaultCodes :
             del' = [del EXCEPT !.pc = "done", !.resp = errorHandler(code)]
  /\ UNCHANGED <<clock, metadata, snapshot, up, sw>>
  /\ UNCHANGED <<get, svc, hist>>

(* metadataStore.deleteFile(fileId) up to the await of persist()           *)
DeleteMetadata ==
  /\ del.pc = "delete"
  /\ IF MapHas(metadata, del.id)
       THEN /\ metadata' = MapDelete(metadata, del.id)
            /\ del' = [del EXCEPT !.pc = "persist", !.snap = metadata']
       ELSE /\ metadata' = metadata
            /\ del' = [del EXCEPT !.pc = "done", !.resp = "Deleted"]
  /\ UNCHANGED <<clock, snapshot, disk, up, sw, faults>>
  /\ UNCHANGED <<get, svc, hist>>

DeletePersist ==
  /\ del.pc = "persist"
  /\ \/ /\ snapshot' = del.snap
        /\ del' = [del EXCEPT !.pc = "done", !.snap = <<>>, !.resp = "Deleted"]
        /\ faults' = faults
     \/ /\ faults < MaxFaults
        /\ faults' = faults + 1
        /\ snapshot' = snapshot
        /\ \E code \in FaultCodes :
             del' = [del EXCEPT !.pc = "done", !.snap = <<>>,
                                !.resp = errorHandler(code)]
  /\ UNCHANGED <<clock, metadata, disk, up, sw>>
  /\ UNCHANGED <<get, svc, hist>>

Delete ==
  \/ \E id \in Uploads : DeleteStart(id)
  \/ DeleteUnlink
  \/ DeleteMetadata
  \/ DeletePersist

(* ------------------- lifecycleService.runCleanup ----------------------- *)
SeqIds(m) == [i \in DOMAIN m |-> m[i].id]

(* the loop over the readdir listing takes the names in ascending order *)
MinOf(S) == CHOOSE x \in S : \A y \in S : x <= y

(* end of one iteration of the loop of cleanupExpiredFiles *)
ExpAdvance(s, counted) ==
  [s EXCEPT !.expired = Tail(@),
            !.deletedCount = IF counted THEN @ + 1 ELSE @,
            !.snap = <<>>,
            !.pc = IF Tail(s.expired) # <<>> THEN "expUnlink" ELSE "omNext"]

(* return of runCleanup: the structured counts, or success: false *)
Finish(s, ok) ==
  [SwIdle EXCEPT
     !.result = IF ok
        THEN [success |-> TRUE, expiredFiles |-> s.deletedCount,
              orphanedMetadata |-> Len(s.orphaned),
              orphanedFiles |-> s.orphanedFiles]
        ELSE [success |-> FALSE, expiredFiles |-> 0, orphanedMetadata |-> 0,
              orphanedFiles |-> 0]]

(* no upload is between its receipt and its answer *)
NoUploadInProgress == \A v \in Uploads : up[v].pc \in {"start", "done"}

Answered == {u \in Uploads : up[u].pc = "done"}

(* nothing but the sweeper and the clock has acted since the last call of  *)
(* runCleanup began, and no filesystem operation has failed since          *)
Undisturbed ==
  /\ ~hist.ext
  /\ NoUploadInProgress /\ Answered = hist.startDone
  /\ del.pc = "idle" /\ get.pc = "idle"
  /\ faults = hist.startFaults

(* runCleanup -> cleanupExpiredFiles: getExpiredFiles() and the first      *)
(* unlink of the loop                                                      *)
BeginRun(by) ==
  /\ sw.pc = "idle"
  /\ LET expiredFiles == SeqIds(getExpiredFiles(metadata, clock))
         follows == /\ hist.ran /\ Undisturbed /\ sw.result.success
                    /\ hist.startedAt = clock
     IN /\ sw' = [SwIdle EXCEPT
                    !.expired = expiredFiles,
                    !.pc = IF expiredFiles # <<>> THEN "expUnlink"
                           ELSE "omNext"]
        /\ hist' = IF hist.track = "sweep"
                     THEN [hist EXCEPT
                             !.ran = TRUE, !.startedAt = clock,
                             !.startExpired = Range(expiredFiles),
                             !.startFaults = faults, !.startDone = Answered,
                             !.follows = follows,
                             !.base = IF follows
                                        THEN <<metadata, snapshot, disk>>
                                        ELSE <<>>,
                             !.ext = FALSE, !.scan = {}]
                     ELSE IF hist.track = "service"
                            THEN [hist EXCEPT !.by = by]
                            ELSE hist
  /\ UNCHANGED <<clock, metadata, snapshot, disk, up, del, faults, get>>

(* runCleanup called directly, as the manual cleanup job does *)
RunCleanup == BeginRun("demand") /\ UNCHANGED svc

(* fs.unlink(file.path) of an expired file; every error is swallowed       *)
(* (ENOENT silently, any other with a log line)                            *)
ExpiredUnlink ==
  /\ sw.pc = "expUnlink"
  /\ sw' = [sw EXCEPT !.pc = "expDelete"]
  /\ \/ /\ disk' = Unlink(disk, Head(sw.expired))
        /\ faults' = faults
     \/ /\ Exists(disk, Head(sw.expired))
        /\ faults < MaxFaults
        /\ faults' = faults + 1
        /\ disk' = disk
  /\ UNCHANGED <<clock, metadata, snapshot, up, del>>
  /\ UNCHANGED <<get, svc, hist>>

(* metadataStore.deleteFile(file.id) up to the await of persist()          *)
ExpiredDelete ==
  /\ sw.pc = "expDelete"
  /\ LET id == Head(sw.expired) IN
       IF MapHas(metadata, id)
         THEN /\ metadata' = MapDelete(metadata, id)
              /\ sw' = [sw EXCEPT !.pc = "expPersist", !.snap = metadata']
         ELSE /\ metadata' = metadata
              /\ sw' = ExpAdvance(sw, TRUE)
  /\ UNCHANGED <<clock, snapshot, disk, up, del, faults>>
  /\ UNCHANGED <<get, svc, hist>>

(* persist() of deleteFile lands and deletedCount++, or throws into the    *)
(* catch of the loop body                                                  *)
ExpiredPersist ==
  /\ sw.pc = "expPersist"
  /\ \/ /\ snapshot' = sw.snap
        /\ sw' = ExpAdvance(sw, TRUE)
        /\ faults' = faults
     \/ /\ faults < MaxFaults
        /\ faults' = faults + 1
        /\ snapshot' = snapshot
        /\ sw' = ExpAdvance(sw, FALSE)
  /\ UNCHANGED <<clock, metadata, disk, up, del>>
  /\ UNCHANGED <<get, svc, hist>>

(* cleanOrphanedMetadata: next() of the live Map iterator; at its end the  *)
(* orphaned ids are deleted and persist() is called if there were any      *)
OrphanedMetadataNext ==
  /\ sw.pc = "omNext"
  /\ LET rest == SelectSeq(metadata, LAMBDA r : r.id \notin sw.visited)
         gone == SelectSeq(metadata, LAMBDA r : r.id \notin Range(sw.orphaned))
     IN IF rest # <<>>
          THEN /\ sw' = [sw EXCEPT !.pc = "omAccess", !.cur = Head(rest).id,
                                   !.visited = @ \cup {Head(rest).id}]
               /\ metadata' = metadata
          ELSE /\ metadata' = gone
               /\ sw' = [sw EXCEPT !.visited = {}, !.cur = 0,
                           !.snap = IF sw.orphaned # <<>> THEN gone ELSE <<>>,
                           !.pc = IF sw.orphaned # <<>> THEN "omPersist" ELSE "ofReaddir"]
  /\ UNCHANGED <<clock, snapshot, disk, up, del, faults>>
  /\ UNCHANGED <<get, svc, hist>>

(* fs.access(record.path): any failure marks the record as orphaned        *)
OrphanedMetadataAccess ==
  /\ sw.pc = "omAccess"
  /\ sw' = [sw EXCEPT !.pc = "omNext", !.cur = 0,
              !.orphaned = IF Exists(disk, sw.cur) THEN @ ELSE Append(@, sw.cur)]
  /\ UNCHANGED <<clock, metadata, snapshot, disk, up, del, faults>>
  /\ UNCHANGED <<get, svc, hist>>

(* persist() of cleanOrphanedMetadata lands, or throws up to the catch of  *)
(* runCleanup, which returns success: false                                *)
OrphanedMetadataPersist ==
  /\ sw.pc = "omPersist"
  /\ \/ /\ snapshot' = sw.snap
        /\ sw' = [sw EXCEPT !.pc = "ofReaddir", !.snap = <<>>]
        /\ faults' = faults
     \/ /\ faults < MaxFaults
        /\ faults' = faults + 1
        /\ snapshot' = snapshot
        /\ sw' = Finish(sw, FALSE)
  /\ UNCHANGED <<clock, metadata, disk, up, del>>
  /\ UNCHANGED <<get, svc, hist>>

(* cleanupOrphanedFiles: fs.readdir(config.uploadDir)                      *)
OrphanedFilesReaddir ==
  /\ sw.pc = "ofReaddir"
  /\ sw' = [sw EXCEPT !.pc = "ofKnown", !.todo = DOMAIN disk]
  /\ hist' = IF hist.track = "sweep"
               THEN [hist EXCEPT !.scan = DOMAIN disk \ MapIds(metadata)]
               ELSE hist
  /\ UNCHANGED <<clock, metadata, snapshot, disk, up, del, faults>>
  /\ UNCHANGED <<get, svc>>

(* no name skipped *)
isHidden_None(filename) == FALSE

(* the names the loop of cleanupOrphanedFiles skips: '.gitkeep' and every  *)
(* name that starts with a dot                                             *)
isHidden(filename) == filename = GitKeep

(* the test on knownFileIds inverted *)
ToUnlink_Known(files, knownFileIds) ==
  {f \in files : ~isHidden(f)} \cap knownFileIds

(* the names of the listing that the loop of cleanupOrphanedFiles unlinks *)
ToUnlink(files, knownFileIds) ==
  {f \in files : ~isHidden(f)} \ knownFileIds

(* getAllFiles(), knownFileIds, and the loop up to its first unlink        *)
OrphanedFilesKnown ==
  /\ sw.pc = "ofKnown"
  /\ LET knownFileIds == MapIds(metadata)
         unknown == ToUnlink(sw.todo, knownFileIds)
     IN sw' = IF unknown = {} THEN Finish(sw, TRUE)
              ELSE [sw EXCEPT !.pc = "ofUnlink", !.todo = unknown]
  /\ UNCHANGED <<clock, metadata, snapshot, disk, up, del, faults>>
  /\ UNCHANGED <<get, svc, hist>>

(* fs.unlink of a file without metadata: counted when it succeeds, logged  *)
(* when it throws; then the loop goes on to the next such file             *)
OrphanedFilesUnlink ==
  /\ sw.pc = "ofUnlink"
  /\ LET filename == MinOf(sw.todo)
         Step(counted) ==
           LET s == [sw EXCEPT !.todo = @ \ {filename},
                               !.orphanedFiles = IF counted THEN @ + 1 ELSE @]
           IN IF s.todo = {} THEN Finish(s, TRUE) ELSE s
     IN \/ /\ Exists(disk, filename)
           /\ disk' = Unlink(disk, filename)
           /\ sw' = Step(TRUE)
           /\ faults' = faults
        \/ /\ ~Exists(disk, filename)
           /\ sw' = Step(FALSE)
           /\ UNCHANGED <<disk, faults>>
        \/ /\ Exists(disk, filename)
           /\ faults < MaxFaults
           /\ faults' = faults + 1
           /\ disk' = disk
           /\ sw' = Step(FALSE)
  /\ UNCHANGED <<clock, metadata, snapshot, up, del>>
  /\ UNCHANGED <<get, svc, hist>>

Sweep ==
  \/ RunCleanup
  \/ ExpiredUnlink
  \/ ExpiredDelete
  \/ ExpiredPersist
  \/ OrphanedMetadataNext
  \/ OrphanedMetadataAccess
  \/ OrphanedMetadataPersist
  \/ OrphanedFilesReaddir
  \/ OrphanedFilesKnown
  \/ OrphanedFilesUnlink

Tick ==
  /\ clock < MaxTime
  /\ clock' = clock + 1
  /\ UNCHANGED <<metadata, snapshot, disk, up, sw, del, faults>>
  /\ UNCHANGED <<get, svc, hist>>

Next ==
  \/ \E u \in Uploads : Upload(u)
  \/ Delete
  \/ Sweep
  \/ Tick

Spec == Init /\ [][Next]_vars

(* ----------------- uploads that do not overlap in time ----------------- *)
(* The clients send an upload only when every earlier upload has been      *)
(* answered; deletes, sweeps and the clock interleave as before.           *)
ReceiveInTurn(u) == NoUploadInProgress /\ Receive(u)

UploadInTurn(u) ==
  \/ ReceiveInTurn(u)
  \/ CheckStorageLimit(u)
  \/ QuotaUnlink(u)
  \/ SniffRead(u)
  \/ SniffUnlink(u)
  \/ SniffCatch(u)
  \/ AddFile(u)
  \/ AddPersist(u)

NextSeq ==
  \/ \E u \in Uploads : UploadInTurn(u)
  \/ Delete
  \/ Sweep
  \/ Tick

SpecSeq == Init /\ [][NextSeq]_vars

(* ----------------------------- GET /files ------------------------------ *)
(* files.sort((a, b) => new Date(b.uploadedAt) - new Date(a.uploadedAt)):  *)
(* a stable sort, newest first, of the array that getAllFiles returned     *)
RECURSIVE InsertNewestFirst(_, _)
InsertNewestFirst(r, s) ==
  IF s = <<>>
    THEN <<r>>
    ELSE IF Head(s).uploadedAt >= r.uploadedAt
           THEN <<Head(s)>> \o InsertNewestFirst(r, Tail(s))
           ELSE <<r>> \o s

RECURSIVE SortNewestFirst(_)
SortNewestFirst(files) ==
  IF files = <<>>
    THEN <<>>
    ELSE InsertNewestFirst(files[Len(files)],
                           SortNewestFirst(SubSeq(files, 1, Len(files) - 1)))

(* getAllFiles, getTotalStorageUsed and the answer: the records of the     *)
(* Map, sorted in a copy                                                   *)
GetList ==
  /\ get.pc = "idle"
  /\ get' = [get EXCEPT !.pc = "done", !.route = "list", !.resp = "List",
                        !.file = SortNewestFirst(metadata)]
  /\ UNCHANGED <<clock, metadata, snapshot, disk, up, sw, del, faults>>
  /\ UNCHANGED <<svc, hist>>

(* ------------ GET /files/:fileId and GET /download/:fileId ------------- *)
(* getFile that does not return a record past its expiresAt *)
GetStart_HidesExpired ==
  /\ get.pc = "idle"
  /\ \E route \in {"files", "download"}, fileId \in Uploads :
       /\ get' = IF /\ MapHas(metadata, fileId)
                      /\ MapGet(metadata, fileId).expiresAt > clock
                   THEN [get EXCEPT !.pc = "access", !.route = route,
                                    !.id = fileId,
                                    !.file = <<MapGet(metadata, fileId)>>]
                   ELSE [get EXCEPT !.pc = "done", !.route = route,
                                    !.id = fileId, !.resp = "NotFound"]
       /\ hist' = IF hist.track = "late"
                    THEN [hist EXCEPT !.late =
                            /\ MapHas(metadata, fileId)
                            /\ MapGet(metadata, fileId).expiresAt <= clock]
                    ELSE hist
  /\ UNCHANGED <<clock, metadata, snapshot, disk, up, sw, del, faults>>
  /\ UNCHANGED svc

(* Both handlers start alike: getFile, 404 when there is no record, then   *)
(* fs.access(file.path).                                                   *)
GetStart ==
  /\ get.pc = "idle"
  /\ \E route \in {"files", "download"}, fileId \in Uploads :
       /\ get' = IF MapHas(metadata, fileId)
                   THEN [get EXCEPT !.pc = "access", !.route = route,
                                    !.id = fileId,
                                    !.file = <<MapGet(metadata, fileId)>>]
                   ELSE [get EXCEPT !.pc = "done", !.route = route,
                                    !.id = fileId, !.resp = "NotFound"]
       /\ hist' = IF hist.track = "late"
                    THEN [hist EXCEPT !.late =
                            /\ MapHas(metadata, fileId)
                            /\ MapGet(metadata, fileId).expiresAt <= clock]
                    ELSE hist
  /\ UNCHANGED <<clock, metadata, snapshot, disk, up, sw, del, faults>>
  /\ UNCHANGED svc

(* fs.access: when the file is there, /files answers with the record it    *)
(* read and /download opens a read stream; when it is not, the handler     *)
(* goes on to metadataStore.deleteFile                                     *)
GetAccess ==
  /\ get.pc = "access"
  /\ get' = IF Exists(disk, get.id)
              THEN IF get.route = "files"
                     THEN [get EXCEPT !.pc = "done", !.onDisk = "yes",
                                      !.resp = "Metadata"]
                     ELSE [get EXCEPT !.pc = "stream", !.onDisk = "yes"]
              ELSE [get EXCEPT !.pc = "delete", !.onDisk = "no"]
  /\ UNCHANGED <<clock, metadata, snapshot, disk, up, sw, del, faults>>
  /\ UNCHANGED <<svc, hist>>

(* createReadStream(file.path).pipe(res); an error of the stream goes to   *)
(* next(error)                                                             *)
GetStream ==
  /\ get.pc = "stream"
  /\ get' = IF Exists(disk, get.id)
              THEN [get EXCEPT !.pc = "done", !.resp = "Download",
                               !.body = <<disk[get.id]>>]
              ELSE [get EXCEPT !.pc = "done",
                               !.resp = errorHandler("ENOENT")]
  /\ UNCHANGED <<clock, metadata, snapshot, disk, up, sw, del, faults>>
  /\ UNCHANGED <<svc, hist>>

(* the 404 sent without the call of deleteFile *)
GetDelete_NoCleanup ==
  /\ get.pc = "delete"
  /\ get' = [get EXCEPT !.pc = "done", !.resp = "NotFoundOnDisk"]
  /\ UNCHANGED <<clock, metadata, snapshot, disk, up, sw, del, faults>>
  /\ UNCHANGED <<svc, hist>>

(* metadataStore.deleteFile up to its persist *)
GetDelete ==
  /\ get.pc = "delete"
  /\ IF MapHas(metadata, get.id)
       THEN /\ metadata' = MapDelete(metadata, get.id)
            /\ get' = [get EXCEPT !.pc = "persist", !.snap = metadata',
                                  !.removed = TRUE]
       ELSE /\ metadata' = metadata
            /\ get' = [get EXCEPT !.pc = "done", !.resp = "NotFoundOnDisk"]
  /\ UNCHANGED <<clock, snapshot, disk, up, sw, del, faults>>
  /\ UNCHANGED <<svc, hist>>

(* the writeFile of persist, then the 404; a throw goes to next(error) *)
GetPersist ==
  /\ get.pc = "persist"
  /\ \/ /\ snapshot' = get.snap
        /\ get' = [get EXCEPT !.pc = "done", !.snap = <<>>,
                              !.resp = "NotFoundOnDisk"]
        /\ faults' = faults
     \/ /\ faults < MaxFaults
        /\ faults' = faults + 1
        /\ snapshot' = snapshot
        /\ \E code \in FaultCodes :
             get' = [get EXCEPT !.pc = "done", !.snap = <<>>,
                                !.resp = errorHandler(code)]
  /\ UNCHANGED <<clock, metadata, disk, up, sw, del>>
  /\ UNCHANGED <<svc, hist>>

Get ==
  \/ GetList
  \/ GetStart
  \/ GetAccess
  \/ GetStream
  \/ GetDelete
  \/ GetPersist

(* ------------- sweeps that run alone, directory touched from outside --- *)
(* Files appear in and vanish from the upload directory by other hands     *)
(* than the service's: the repository's '.gitkeep', a stray file, a file   *)
(* removed by an operator.                                                 *)
Touched == IF hist.track = "sweep" THEN [hist EXCEPT !.ext = TRUE] ELSE hist

ExternalCreate ==
  /\ \E name \in {GitKeep, StrayFile} :
       /\ ~Exists(disk, name)
       /\ disk' = WriteFile(disk, name, [sig |-> "none", size |-> 1])
  /\ hist' = Touched
  /\ UNCHANGED <<clock, metadata, snapshot, up, sw, del, faults, get, svc>>

ExternalRemove ==
  /\ \E name \in DOMAIN disk : disk' = Unlink(disk, name)
  /\ hist' = Touched
  /\ UNCHANGED <<clock, metadata, snapshot, up, sw, del, faults, get, svc>>

(* A request arrives only while no sweep is running, and runCleanup is     *)
(* called only while no request is in progress.                            *)
ReceiveBetweenRuns(u) == sw.pc = "idle" /\ Receive(u)

RunCleanupAlone == NoUploadInProgress /\ RunCleanup

NextSweep ==
  \/ \E u \in Uploads :
       \/ ReceiveBetweenRuns(u)
       \/ CheckStorageLimit(u)
       \/ QuotaUnlink(u)
       \/ SniffRead(u)
       \/ SniffUnlink(u)
       \/ SniffCatch(u)
       \/ AddFile(u)
       \/ AddPersist(u)
  \/ RunCleanupAlone
  \/ ExpiredUnlink
  \/ ExpiredDelete
  \/ ExpiredPersist
  \/ OrphanedMetadataNext
  \/ OrphanedMetadataAccess
  \/ OrphanedMetadataPersist
  \/ OrphanedFilesReaddir
  \/ OrphanedFilesKnown
  \/ OrphanedFilesUnlink
  \/ ExternalCreate
  \/ ExternalRemove
  \/ Tick

SpecSweep == InitSweep /\ [][NextSweep]_vars

(* the request handlers with a reader, and files removed from outside *)
NextRead ==
  \/ \E u \in Uploads : Upload(u)
  \/ Delete
  \/ Get
  \/ ExternalRemove

SpecRead == Init /\ [][NextRead]_vars

(* -------------------------- lifecycle service -------------------------- *)
(* start() without the setInterval *)
Start_NoTimer ==
  IF svc.isRunning
    THEN UNCHANGED vars
    ELSE BeginRun("start") /\ svc' = [svc EXCEPT !.isRunning = TRUE]

(* start() without the test of isRunning *)
Start_Unguarded ==
  /\ BeginRun("start")
  /\ svc' = [svc EXCEPT !.isRunning = TRUE, !.cleanupTimer = "set"]

(* start() without the immediate runCleanup() *)
Start_NoImmediateRun ==
  IF svc.isRunning
    THEN UNCHANGED vars
    ELSE /\ svc' = [svc EXCEPT !.isRunning = TRUE, !.cleanupTimer = "set"]
         /\ UNCHANGED <<clock, metadata, snapshot, disk, up, sw, del,
                        faults, get, hist>>

(* start(): nothing when already running; otherwise runCleanup() is called *)
(* (not awaited), the interval timer is set and isRunning becomes true     *)
Start ==
  IF svc.isRunning
    THEN UNCHANGED vars
    ELSE /\ BeginRun("start")
         /\ svc' = [svc EXCEPT !.isRunning = TRUE, !.cleanupTimer = "set"]

(* the interval timer fires after cleanupIntervalMs: () => runCleanup().   *)
(* The new invocation is put in `sw`, which has to be free.  Without       *)
(* Switch this takes the interval to be longer than a run; with Switch     *)
(* (SpecOverlap) the timer also fires while a run is under way.            *)
Interval ==
  /\ svc.cleanupTimer = "set"
  /\ BeginRun("timer")
  /\ UNCHANGED svc

(* stop(): nothing when not running; otherwise clearInterval *)
Stop ==
  /\ svc' = IF svc.isRunning
              THEN [svc EXCEPT !.isRunning = FALSE, !.cleanupTimer = "null"]
              ELSE svc
  /\ UNCHANGED <<clock, metadata, snapshot, disk, up, sw, del, faults, get,
                 hist>>

(* The server after a restart: initialize() has loaded the snapshot that   *)
(* the previous process left, and the upload directory holds whatever that *)
(* process, a crash or an operator left in it.                             *)
Stored(ids) ==
  SelectSeq([u \in Uploads |-> NewRecord(u, "image/png", 1, 0, 0)],
            LAMBDA r : r.id \in ids)

InitRestarted ==
  /\ clock = 0
  /\ \E ids \in SUBSET Uploads : metadata = Stored(ids)
  /\ snapshot = metadata
  /\ \E files \in SUBSET (Uploads \cup {GitKeep, StrayFile}) :
       disk = [n \in files |-> [sig |-> "image/png", size |-> 1]]
  /\ up = [u \in Uploads |-> UpIdle]
  /\ sw = SwIdle
  /\ del = DelIdle
  /\ faults = 0
  /\ get = GetIdle
  /\ svc = SvcIdle
  /\ hist = [HistInit EXCEPT !.track = "service"]

NextService ==
  \/ Start
  \/ Interval
  \/ Stop
  \/ Sweep
  \/ ExternalCreate
  \/ ExternalRemove
  \/ Tick

(* every pending step of a run is taken in the end, and a timer that stays *)
(* set fires; filesystem operations fail at most MaxFaults times           *)
SpecService ==
  /\ InitRestarted
  /\ [][NextService]_vars
  /\ WF_vars(Interval)
  /\ WF_vars(Sweep /\ sw.pc # "idle")

(* the service, with the overlap of the uploads recorded in hist.ahead *)
SpecRace == InitRace /\ [][Next]_vars

(* ======================================================================= *)
(*                               Properties                                *)
(* ======================================================================= *)
Failed(u) == up[u].pc = "done" /\ up[u].resp # "Created"

(* no metadata mutation is between its Map update and its snapshot write *)
NoMutationInFlight ==
  /\ \A u \in Uploads : up[u].pc # "persist"
  /\ del.pc # "persist"
  /\ sw.pc \notin {"expPersist", "omPersist"}

Live(id) == MapHas(metadata, id)
Unexpired(id) == MapGet(metadata, id).expiresAt > clock

(* C1: once an upload attempt has ended in an error at any gate, the upload *)
(* directory holds no file of that attempt.                                  *)
C1_NoFileAfterFailedUpload ==
  \A u \in Uploads : Failed(u) => ~Exists(disk, u)

(* C2: an upload that overlaps a sweep run and is answered with success has  *)
(* its record live and its file on disk once both have finished (no client   *)
(* delete, no I/O failure, nothing expired).                                 *)
C2_SweepSafeWithUpload ==
  \A u \in Uploads :
    (/\ up[u].pc = "done" /\ up[u].resp = "Created"
     /\ sw.pc = "idle" /\ del.pc = "idle"
     /\ faults = 0 /\ clock = 0)
    => (Live(u) /\ Exists(disk, u))

(* C3: once every addFile, deleteFile and cleanOrphanedMetadata call has     *)
(* completed (and no write has failed), files.json holds exactly the records *)
(* of the in-memory Map.                                                     *)
C3_SnapshotEqualsMemory ==
  (NoMutationInFlight /\ faults = 0) => Range(snapshot) = Range(metadata)

(* C4: no step of a sweep run removes a live, unexpired record whose file is *)
(* on disk, nor deletes the file of such a record.                           *)
C4_SweepKeepsLiveFiles ==
  [][sw' # sw =>
       \A id \in Uploads :
         (Live(id) /\ Unexpired(id) /\ Exists(disk, id))
         => (MapHas(metadata', id) /\ Exists(disk', id))]_vars

(* C5 (as stated): in every reachable state each live record's path refers   *)
(* to an existing file whose byte length equals the record's size.           *)
C5_RecordHasFile ==
  \A r \in Range(metadata) : Exists(disk, r.id) /\ disk[r.id].size = r.size

(* C5 (amended): whenever the file of a live record is on disk, its byte     *)
(* length equals the record's size; the file itself may be missing.          *)
C5_SizeMatchesWhenPresent ==
  \A r \in Range(metadata) : Exists(disk, r.id) => disk[r.id].size = r.size

C5_Witness ==
  \E r \in Range(metadata) :
    /\ up[r.id].pc = "done" /\ up[r.id].resp = "Created"
    /\ Exists(disk, r.id) /\ disk[r.id].size = r.size /\ r.size = 2
(* C6: after a client DELETE of an id has reported success, and after the    *)
(* expiry sweep has removed the record of an expired id, the id has no       *)
(* record and no file in the upload directory.                               *)
C6_DeletedIsGone ==
  /\ (del.pc = "done" /\ del.resp = "Deleted")
       => (~Live(del.id) /\ ~Exists(disk, del.id))
  /\ sw.pc = "expPersist"
       => (~Live(Head(sw.expired)) /\ ~Exists(disk, Head(sw.expired)))

(* C7: when the snapshot write of addFile fails, the upload fails and the    *)
(* record it tried to add is not in the in-memory Map.                       *)
C7_FailedAddRolledBack ==
  \A u \in Uploads :
    (up[u].pc = "done" /\ up[u].resp \in FaultAnswers) => ~Live(u)

(* C8: when the sniffer determined a type that differs from the declared     *)
(* type, the upload is answered with the type-mismatch error, its file is    *)
(* deleted and no record is added (no I/O failure involved).                 *)
C8_MismatchRejected ==
  \A u \in Uploads :
    (/\ up[u].pc = "done" /\ faults = 0
     /\ up[u].detected # "none" /\ up[u].detected # up[u].mimetype)
    => (up[u].resp = "TypeMismatch" /\ ~Exists(disk, u) /\ ~Live(u))

(* C9 (as stated): when the sniffed type is determinable but not on the      *)
(* allow-list, the upload fails with the type-not-allowed error.             *)
C9_SniffedNotAllowedError ==
  \A u \in Uploads :
    (/\ up[u].pc = "done"
     /\ up[u].detected # "none" /\ up[u].detected \notin allowedMimeTypes)
    => up[u].resp = "ActualTypeNotAllowed"

(* C9 (amended): when the sniffed type is determinable but not on the        *)
(* allow-list, the upload is rejected and no record is added, and the answer *)
(* is the type-mismatch error (the generic validation failure when removing  *)
(* the file throws); the sniffed-type-not-allowed answer is never given.     *)
C9_SniffedNotAllowedIsMismatch ==
  \A u \in Uploads :
    /\ up[u].resp # "ActualTypeNotAllowed"
    /\ (/\ up[u].pc = "done"
        /\ up[u].detected # "none" /\ up[u].detected \notin allowedMimeTypes)
       => (up[u].resp \in {"TypeMismatch", "ValidateFailed"} /\ ~Live(u))

C9_Witness ==
  \E u \in Uploads :
    /\ up[u].pc = "done"
    /\ up[u].mimetype \in allowedMimeTypes
    /\ up[u].detected = "application/x-msdownload"
    /\ up[u].resp = "TypeMismatch" /\ ~Live(u) /\ ~Exists(disk, u)

(* C10: an upload that reached the quota guard is answered with the          *)
(* storage-exceeded error exactly when the usage it read plus its size       *)
(* exceeds maxStorageBytes (no I/O failure involved).                        *)
C10_QuotaExact ==
  \A u \in Uploads :
    (/\ up[u].pc = "done" /\ faults = 0
     /\ fileFilter(up[u].ext, up[u].mimetype) = "accept")
    => (up[u].resp = "StorageExceeded"
          <=> up[u].usage + up[u].size > maxStorageBytes)

(* C11: when each upload is answered before the next one is sent, the       *)
(* stored total never exceeds maxStorageBytes, whatever deletes and sweeps   *)
(* run in between (specification SpecSeq).                                   *)
C11_SequentialWithinQuota ==
  getTotalStorageUsed(metadata) <= maxStorageBytes

(* the second upload was admitted on top of the first and fills the quota *)
C11_Witness ==
  /\ getTotalStorageUsed(metadata) = maxStorageBytes
  /\ \E u \in Uploads :
       up[u].pc = "done" /\ up[u].resp = "Created" /\ up[u].usage > 0

(* C12: every upload that got past the quota guard read a usage with        *)
(* usage + size <= maxStorageBytes, and the stored total exceeds             *)
(* maxStorageBytes by at most the sizes of the stored uploads that were      *)
(* between quota check and addFile at the same time as another upload that   *)
(* was added (specification SpecRace).                                       *)
Added(u) ==
  \/ up[u].pc = "persist"
  \/ up[u].pc = "done" /\ up[u].resp \in {"Created"} \cup FaultAnswers

Admitted(u) ==
  \/ up[u].pc \in {"sniffRead", "sniffUnlink", "sniffCatch", "add"}
  \/ Added(u)
  \/ /\ up[u].pc = "done"
     /\ up[u].resp \in {"TypeMismatch", "ActualTypeNotAllowed",
                         "ValidateFailed"}

Raced(u) ==
  \E v \in Uploads \ {u} :
    Added(v) /\ (v \in hist.ahead[u] \/ u \in hist.ahead[v])

C13_NoLostUpdate ==
  (/\ \A u \in Uploads : up[u].pc = "done" /\ up[u].resp = "Created"
   /\ del.pc = "idle" /\ clock = 0
   /\ \A u \in Uploads : Exists(disk, u))
  => /\ \A u \in Uploads : Live(u) /\ MapGet(metadata, u).size = up[u].size
     /\ getTotalStorageUsed(metadata) = SumSizes(up)

(* both uploads passed the quota check before either was added *)
C13_Witness ==
  /\ \A u \in Uploads :
       /\ up[u].pc = "done" /\ up[u].resp = "Created"
       /\ up[u].usage = 0 /\ up[u].size > 0 /\ Live(u)
  /\ del.pc = "idle" /\ clock = 0
  /\ getTotalStorageUsed(metadata) = SumSizes(up)

(* a call of runCleanup has returned success, and from its beginning on    *)
(* nothing else has acted and no filesystem operation has failed           *)
RanAlone == sw.pc = "idle" /\ hist.ran /\ Undisturbed /\ sw.result.success

(* C14: after a sweep run without I/O failure and without concurrent         *)
(* operation, no live record has expiresAt <= the time the run started, the  *)
(* file of every record that was expired then is gone, and expiredFiles      *)
(* equals the number of those records (specification SpecSweep).             *)
C14_ExpirySweepComplete ==
  RanAlone =>
    /\ \A i \in DOMAIN metadata : metadata[i].expiresAt > hist.startedAt
    /\ \A id \in hist.startExpired : ~Exists(disk, id) /\ ~Live(id)
    /\ sw.result.expiredFiles = Cardinality(hist.startExpired)

(* a run that found two expired records *)
C14_Witness ==
  /\ RanAlone
  /\ Cardinality(hist.startExpired) > 1
  /\ sw.result.expiredFiles = Cardinality(hist.startExpired)

C16_MissingFileRemovesRecord ==
  (get.pc = "done" /\ get.onDisk = "no")
  => /\ ~Live(get.id)
     /\ getTotalStorageUsed(metadata) =
          getTotalStorageUsed(SelectSeq(metadata, LAMBDA r : r.id # get.id))
     /\ faults = 0 => get.resp = "NotFoundOnDisk"

(* the file of a stored upload was removed from outside; no DELETE ran, so   *)
(* it is the GET that removed the record                                     *)
C16_Witness ==
  /\ get.pc = "done" /\ get.onDisk = "no" /\ get.resp = "NotFoundOnDisk"
  /\ up[get.id].pc = "done" /\ up[get.id].resp = "Created"
  /\ del.pc = "idle"
  /\ ~Live(get.id)

(* C17: a call of runCleanup that began right after a successful call, at   *)
(* the same clock value and with nothing in between, and that ran alone      *)
(* itself, reports 0 expired files, 0 orphaned metadata and 0 orphaned       *)
(* files and leaves the metadata store, the snapshot and the upload          *)
(* directory as it found them (specification SpecSweep).                     *)
C17_SecondRunChangesNothing ==
  (RanAlone /\ hist.follows)
  => /\ sw.result.expiredFiles = 0
     /\ sw.result.orphanedMetadata = 0
     /\ sw.result.orphanedFiles = 0
     /\ <<metadata, snapshot, disk>> = hist.base

(* a second run over a store that holds a record and a directory that     *)
(* holds its file and '.gitkeep'                                           *)
C17_Witness ==
  /\ RanAlone /\ hist.follows
  /\ metadata # <<>>
  /\ Exists(disk, GitKeep)
  /\ <<metadata, snapshot, disk>> = hist.base

(* C18: while the lifecycle service is running, every live record whose    *)
(* expiresAt has passed is eventually out of the metadata store with its     *)
(* file out of the upload directory (specification SpecService: pending      *)
(* steps are taken, the timer fires, finitely many I/O failures).            *)
Expired(id) == Live(id) /\ MapGet(metadata, id).expiresAt <= clock

C18_ExpiredEventuallyRemoved ==
  \A id \in Uploads :
    (svc.isRunning /\ Expired(id))
      ~> ((~Live(id) /\ ~Exists(disk, id)) \/ ~svc.isRunning)

(* a run of the running service found an expired record and removed it     *)
(* with its file                                                           *)
C18_Witness ==
  /\ svc.isRunning /\ sw.pc = "idle" /\ sw.result.success
  /\ sw.result.expiredFiles > 0
  /\ \E id \in Uploads : ~Live(id) /\ ~Exists(disk, id)
  /\ hist.by = "timer"

(* C19 as stated: while the lifecycle service is running, every record     *)
(* whose file is missing is eventually removed, and every file in the        *)
(* upload directory that has no record is eventually removed.                *)
FileNames == Uploads \cup {GitKeep, StrayFile}

C19_EveryOrphanRemoved ==
  /\ \A id \in Uploads :
       (svc.isRunning /\ Live(id) /\ ~Exists(disk, id))
         ~> (~Live(id) \/ ~svc.isRunning)
  /\ \A f \in FileNames :
       (svc.isRunning /\ Exists(disk, f) /\ ~Live(f))
         ~> (~Exists(disk, f) \/ ~svc.isRunning)

(* C19 amended: while the lifecycle service is running, every record whose   *)
(* file is missing is eventually removed, and every file without record      *)
(* whose name does not start with a dot is eventually removed or, when an    *)
(* upload in flight wrote it, given its record (specification SpecService).  *)
C19_VisibleOrphanRemoved ==
  /\ \A id \in Uploads :
       (svc.isRunning /\ Live(id) /\ ~Exists(disk, id))
         ~> (~Live(id) \/ ~svc.isRunning)
  /\ \A f \in FileNames :
       (svc.isRunning /\ Exists(disk, f) /\ ~Live(f) /\ ~isHidden(f))
         ~> (~Exists(disk, f) \/ Live(f) \/ ~svc.isRunning)

(* a run of the running service removed a record without file and a file   *)
(* without record                                                          *)
C19_Witness ==
  /\ svc.isRunning /\ sw.pc = "idle" /\ sw.result.success
  /\ sw.result.orphanedMetadata > 0
  /\ sw.result.orphanedFiles > 0
  /\ \A f \in DOMAIN disk : isHidden(f) \/ Live(f)
  /\ \A id \in Uploads : Live(id) => Exists(disk, id)

(* C20: the step of start() that sets isRunning begins a sweep run (no      *)
(* interval has elapsed); a run begun by the interval timer begins while     *)
(* the service is running, and the timer is set exactly while it is running  *)
(* (from start() until stop()), so that an elapsed interval begins a run     *)
(* whenever the previous run has returned; and runCleanup on demand can      *)
(* begin a run whenever none is under way, running or not (specification     *)
(* SpecService).                                                             *)
RunBegins == sw.pc = "idle" /\ sw'.pc # "idle"

C20_StartAndTimer ==
  [][/\ (~svc.isRunning /\ svc'.isRunning)
        => (RunBegins /\ hist'.by = "start")
     /\ (RunBegins /\ hist'.by = "timer")
        => (svc.isRunning /\ svc'.isRunning)
     /\ svc'.isRunning <=> svc'.cleanupTimer = "set"
     /\ (svc.isRunning /\ sw.pc = "idle") => ENABLED Interval
     /\ sw.pc = "idle" => ENABLED RunCleanup]_vars

(* the running service has begun a run on its timer *)
C20_Witness ==
  /\ svc.isRunning /\ svc.cleanupTimer = "set"
  /\ hist.by = "timer"
  /\ sw.pc # "idle"

(* ----------- uploads, sweeps and a reader: the round trip -------------- *)
(* The request handlers of upload and GET run next to the sweeper; the     *)
(* record that addFile handed to each upload handler is remembered.        *)
InitRound == Constructed /\ hist = [HistInit EXCEPT !.track = "round"]

NextRound ==
  \/ \E u \in Uploads : Upload(u)
  \/ Get
  \/ Sweep
  \/ Tick

SpecRound == InitRound /\ [][NextRound]_vars

(* the bytes that upload u sent *)
Sent(u) == [sig |-> up[u].sig, size |-> up[u].size]

(* the GET has answered about upload u, whose record it found, and nobody  *)
(* but this GET itself has taken that record out of the store              *)
AnsweredAbout(u) ==
  /\ get.pc = "done"
  /\ get.id = u
  /\ get.file # <<>>
  /\ up[u].resp = "Created"
  /\ MapHas(metadata, u) \/ get.removed

(* C21: round trip.  When upload u has succeeded and its record has been   *)
(* neither deleted nor swept, GET /download/u answers with exactly the     *)
(* bytes that were uploaded and GET /files/u answers with the record that  *)
(* addFile created for the upload.  Stated with nothing expired and no     *)
(* filesystem fault; it fails when the orphaned-file scan of a sweep has   *)
(* unlinked the file while the upload was between its write and addFile.   *)
C21_RoundTrip ==
  \A u \in Uploads :
    (AnsweredAbout(u) /\ clock = 0 /\ faults = 0) =>
      IF get.route = "download"
        THEN get.resp = "Download" /\ get.body = <<Sent(u)>>
        ELSE get.resp = "Metadata" /\ get.file = hist.made[u]

(* C22: every record in the store is still the record that addFile made   *)
(* for its upload, whatever GETs and sweeps have run since, and its        *)
(* expiresAt is its uploadedAt plus the retention duration.  The second    *)
(* half fails when the clock moves between the two readings of addFile.    *)
C22_ExpiresAtFixed ==
  \A u \in Uploads :
    MapHas(metadata, u) =>
      LET r == MapGet(metadata, u)
      IN /\ <<r>> = hist.made[u]
         /\ r.expiresAt = r.uploadedAt + fileRetentionMs

(* upload u has arrived under a name whose extension is '.exe' in upper   *)
(* case, which is on the block-list once lowered                           *)
BlockedName(u) == up[u].pc # "start" /\ up[u].ext = ".EXE"

(* C23: an upload whose original name has a blocked extension, whatever    *)
(* the case of its letters, is answered as extension-blocked, also when    *)
(* its declared type is not allowed either, and no file of it is ever in   *)
(* the upload directory.                                                   *)
C23_BlockedExtensionFirst ==
  \A u \in Uploads :
    BlockedName(u) =>
      /\ up[u].pc = "done"
      /\ up[u].resp = "ExtensionBlocked"
      /\ ~Exists(disk, u)

C23_Witness ==
  \E u \in Uploads :
    /\ BlockedName(u)
    /\ up[u].mimetype \notin allowedMimeTypes
    /\ up[u].resp = "ExtensionBlocked"

(* the bytes of upload u carry no known signature and the sniffer has     *)
(* read them: the upload is past validateFileMimeType's readFile and was   *)
(* not turned away by the quota guard or by a failure of the read          *)
Undetected(u) ==
  /\ up[u].size > 0
  /\ up[u].sig = "none"
  /\ up[u].pc \notin {"start", "quota", "quotaUnlink", "sniffRead",
                      "sniffCatch"}
  /\ up[u].resp \notin {"StorageExceeded", "QuotaCheckFailed",
                        "ValidateFailed"}

(* C24: when sniffing yields no type the declared type alone decides.  An  *)
(* upload whose declared type is not on the allow-list is turned away by   *)
(* the filter; one whose bytes the sniffer could not name has a declared   *)
(* type on the allow-list, is not rejected by the sniffer, and its record  *)
(* carries the declared type.                                              *)
C24_UndetectedUsesDeclared ==
  \A u \in Uploads :
    /\ (up[u].pc # "start" /\ up[u].mimetype \notin allowedMimeTypes) =>
         /\ up[u].pc = "done"
         /\ up[u].resp \in {"TypeNotAllowed", "ExtensionBlocked"}
    /\ Undetected(u) =>
         /\ up[u].mimetype \in allowedMimeTypes
         /\ up[u].pc \in {"add", "persist", "done"}
         /\ up[u].resp \in {"none", "Created"} \cup FaultAnswers
         /\ MapHas(metadata, u) =>
              MapGet(metadata, u).mimeType = up[u].mimetype

C24_Witness ==
  \E u \in Uploads :
    /\ Undetected(u)
    /\ up[u].resp = "Created"
    /\ MapHas(metadata, u)
    /\ MapGet(metadata, u).mimeType = "image/png"

(* C25: a DELETE for an id without a live record is answered not-found   *)
(* in the step that looks the record up, and that step leaves the store,   *)
(* the snapshot file and the upload directory as they were.                *)
C25_DeleteUnknownChangesNothing ==
  [][(del.pc = "idle" /\ del'.pc # "idle" /\ ~MapHas(metadata, del'.id)) =>
       /\ del'.pc = "done"
       /\ del'.resp = "NotFound"
       /\ metadata' = metadata
       /\ snapshot' = snapshot
       /\ disk' = disk]_vars

(* not-found for the id of an upload that is still on its way: its file    *)
(* is in the directory and stays there                                     *)
C25_Witness ==
  /\ del.pc = "done"
  /\ del.resp = "NotFound"
  /\ Exists(disk, del.id)
  /\ up[del.id].pc = "add"

(* the operations whose fs.unlink of the file of id is under way: issued  *)
(* and not yet returned                                                    *)
Unlinking(id) ==
  (IF del.pc = "unlink" /\ del.id = id THEN {"DELETE"} ELSE {})
  \cup (IF sw.pc = "expUnlink" /\ Head(sw.expired) = id
          THEN {"expiry sweep"} ELSE {})
  \cup (IF sw.pc = "ofUnlink" /\ MinOf(sw.todo) = id
          THEN {"orphaned-file scan"} ELSE {})
  \cup (IF up[id].pc \in {"quotaUnlink", "sniffUnlink", "sniffCatch"}
          THEN {"upload cleanup"} ELSE {})

(* C26: for every id, at most one of the client DELETE, the expiry sweep,  *)
(* the orphaned-file scan and the failure cleanup of the upload has an     *)
(* unlink of that id's file under way.                                     *)
C26_OneUnlinkAtATime ==
  \A id \in Uploads : Cardinality(Unlinking(id)) <= 1

(* ------------------------ what the answers carry ---------------------- *)
(* the members of the record that the answer copies into its body (for a   *)
(* download, into its headers)                                             *)
RecordFields(resp) ==
  IF resp \in {"Created", "Metadata", "List"}
    THEN {"id", "originalName", "filename", "size", "mimeType",
          "uploadedAt", "expiresAt"}
  ELSE IF resp = "Deleted" THEN {"id", "originalName"}
  ELSE IF resp = "Download" THEN {"originalName", "size", "mimeType"}
  ELSE {}

(* the answer carries the message of the error that was caught: `details:  *)
(* error.message` in the catch blocks of checkStorageLimit and of          *)
(* validateFileMimeType, `error: err.message` in the last branch of        *)
(* errorHandler.  The error is the one of a failed fs call on a file of    *)
(* the service, and such a message names the path of that file.            *)
CarriesErrorMessage(resp) ==
  resp \in {"QuotaCheckFailed", "ValidateFailed", "ServerError"}

(* the answers sent so far *)
AnswersSent == ({up[u].resp : u \in Uploads} \cup {del.resp, get.resp}) \ {"none"}

(* C27: no answer carries an internal filesystem path: none copies the     *)
(* record's `path`, and none carries the message of a filesystem error.    *)
C27_NoInternalPath ==
  \A resp \in AnswersSent :
    /\ "path" \notin RecordFields(resp)
    /\ ~CarriesErrorMessage(resp)

(* C28: a run of runCleanup returns only out of its last sub-phase, the   *)
(* orphaned-file scan, whatever failed in the expiry sweep or in the       *)
(* orphaned-metadata reconciliation before it.                             *)
C28_EveryPhaseAttempted ==
  [][(sw.pc # "idle" /\ sw'.pc = "idle") =>
       sw.pc \in {"ofKnown", "ofUnlink"}]_vars

(* C29: while a run of runCleanup is under way, every record that was     *)
(* expired when the run began and whose file is still in the upload        *)
(* directory is still in the store: the record goes only after the file.   *)
C29_FileGoneBeforeMetadata ==
  (sw.pc # "idle" /\ hist.ran) =>
    \A id \in hist.startExpired : Exists(disk, id) => MapHas(metadata, id)

(* --------------------- runs of runCleanup at once ---------------------- *)
(* start() and the callback of setInterval call runCleanup() without       *)
(* awaiting it and without looking whether a run is under way, and so does *)
(* the manual job.  Two invocations are kept: the one in `sw`, whose       *)
(* continuation runs next, and svc.other.  Switch hands the turn to the    *)
(* other invocation; a call of runCleanup takes the place of one that has  *)
(* returned.                                                               *)
Switch ==
  /\ {sw.pc, svc.other.pc} # {"idle"}
  /\ sw' = svc.other
  /\ svc' = [svc EXCEPT !.other = sw]
  /\ UNCHANGED <<clock, metadata, snapshot, disk, up, del, faults, get, hist>>

NextOverlap ==
  \/ Start
  \/ Interval
  \/ Stop
  \/ Sweep
  \/ Switch
  \/ Tick

SpecOverlap == InitRestarted /\ [][NextOverlap]_vars

(* C30: two runs of runCleanup are never under way at once, whether they   *)
(* were started by start(), by the interval timer or on demand.            *)
C30_RunsDoNotOverlap ==
  ~(sw.pc # "idle" /\ svc.other.pc # "idle")

(* C31: the sniffer decides before the quota guard.  An upload that has   *)
(* been answered, whose bytes carry a type other than the declared one and *)
(* whose size did not fit under the limit when the quota guard looked, is  *)
(* answered with the sniffer's error (no filesystem fault).                *)
C31_SnifferBeforeQuota ==
  \A u \in Uploads :
    (/\ up[u].pc = "done"
     /\ up[u].size > 0
     /\ up[u].sig \notin {"none", up[u].mimetype}
     /\ OverLimit(up[u].usage, up[u].size)
     /\ faults = 0) =>
      up[u].resp \in {"TypeMismatch", "ActualTypeNotAllowed"}

(* the step in which cleanOrphanedMetadata leaves its loop, deletes the    *)
(* ids it collected and returns                                            *)
ReconcileEnds == sw.pc = "omNext" /\ sw'.pc \notin {"omNext", "omAccess"}

(* C32: the number that cleanOrphanedMetadata returns is the number of    *)
(* records it removed from the store, whatever other requests did while it *)
(* was checking the files.                                                 *)
C32_ReturnsNumberRemoved ==
  [][ReconcileEnds =>
       Len(sw.orphaned) = Len(metadata) - Len(metadata')]_vars

(* C33: when runCleanup is called, getExpiredFiles returns exactly the live records whose expiresAt   *)
(* is not after the time of the call, each once, and the call changes      *)
(* neither the store nor the snapshot nor the upload directory.            *)
C33_ExpiredExact ==
  [][RunBegins =>
       LET due == {id \in MapIds(metadata) :
                     MapGet(metadata, id).expiresAt <= clock}
       IN /\ Range(sw'.expired) = due
          /\ Len(sw'.expired) = Cardinality(due)
          /\ UNCHANGED <<clock, metadata, snapshot, disk>>]_vars

(* a call has returned a record that expires at the time of the call and   *)
(* has left out one that expires later                                     *)
C33_Witness ==
  /\ sw.pc = "expUnlink"
  /\ \E a, b \in MapIds(metadata) :
       /\ MapGet(metadata, a).expiresAt = clock
       /\ a \in Range(sw.expired)
       /\ MapGet(metadata, b).expiresAt > clock
       /\ b \notin Range(sw.expired)

(* ------------------------------ restart ------------------------------- *)
(* JSON.stringify(records) followed by JSON.parse: every member of a       *)
(* record is a string or a number and comes back as it was written         *)
ParseRecord(r) ==
  [id |-> r.id, mimeType |-> r.mimeType, size |-> r.size,
   uploadedAt |-> r.uploadedAt, expiresAt |-> r.expiresAt]

(* initialize(): records.forEach(record => this.metadata.set(record.id,    *)
(* record)) on the empty Map                                               *)
RECURSIVE Load(_)
Load(records) ==
  IF records = <<>>
    THEN <<>>
    ELSE MapSet(Load(SubSeq(records, 1, Len(records) - 1)),
                ParseRecord(records[Len(records)]))

(* every request has been answered and no run of runCleanup is under way *)
Quiescent ==
  /\ NoUploadInProgress
  /\ del.pc \in {"idle", "done"}
  /\ get.pc \in {"idle", "done"}
  /\ sw.pc = "idle"
  /\ svc.other.pc = "idle"

(* The server is shut down while it is quiescent and started again: a new  *)
(* store is constructed and startServer awaits initialize(), which reads   *)
(* files.json into the empty Map; the lifecycle service is a new object.   *)
Restart ==
  /\ svc.pid < MaxRestarts
  /\ Quiescent
  /\ metadata' = Load(snapshot)
  /\ svc' = [SvcIdle EXCEPT !.pid = svc.pid + 1]
  /\ sw' = SwIdle
  /\ UNCHANGED <<clock, snapshot, disk, up, del, faults, get, hist>>

(* a later call of initialize(), as runCleanup and every method of the     *)
(* store make: `if (this.initialized) return;`                             *)
Initialize ==
  IF svc.initialized
    THEN UNCHANGED vars
    ELSE /\ metadata' = Load(snapshot)
         /\ svc' = [svc EXCEPT !.initialized = TRUE]
         /\ UNCHANGED <<clock, snapshot, disk, up, sw, del, faults, get,
                        hist>>

NextRestart ==
  \/ \E u \in Uploads : Upload(u)
  \/ Delete
  \/ Restart
  \/ Initialize

SpecRestart == Init /\ [][NextRestart]_vars

(* the step is the restart of the server *)
Restarted == svc'.pid # svc.pid

(* C34: restart round trip.  The Map after a restart holds exactly the     *)
(* records of files.json; when no mutation was in flight at the shutdown   *)
(* (and no write had failed) it holds the records it held before; and a    *)
(* step that is neither a restart nor a step of a request leaves the Map   *)
(* as it is, a further initialize() included.                              *)
C34_RestartRoundTrip ==
  [][/\ Restarted => Range(metadata') = Range(snapshot)
     /\ (Restarted /\ NoMutationInFlight /\ faults = 0) =>
          Range(metadata') = Range(metadata)
     /\ (~Restarted /\ up' = up /\ del' = del) => metadata' = metadata]_vars

(* C35: the count of expired files that a run reports grows only by the   *)
(* records that this run removed from the store: when the run comes to     *)
(* deleteFile for an expired record and removes nothing, because a client  *)
(* DELETE has removed the record in the meantime, its count stays as it    *)
(* was.                                                                    *)
C35_CountsOwnRemovals ==
  [][(sw.pc = "expDelete" /\ sw' # sw /\ metadata' = metadata) =>
       sw'.deletedCount = sw.deletedCount]_vars

(* ----------------- requests on records past their expiry -------------- *)
(* Uploads, DELETE, a GET and the clock, without any sweep: whether the    *)
(* record that the GET asks for was past its expiresAt is recorded.        *)
InitLate == Constructed /\ hist = [HistInit EXCEPT !.track = "late"]

NextLate ==
  \/ \E u \in Uploads : Upload(u)
  \/ Delete
  \/ Get
  \/ Tick

SpecLate == InitLate /\ [][NextLate]_vars

(* C36: expiry is enforced by the sweeps alone.  getFile returns a record *)
(* whenever the store holds it, past its expiresAt or not; the list holds  *)
(* every record of the store; the quota guard counts every record of the   *)
(* store; and the download is served whenever the file is still there.     *)
C36_ExpiredStillServed ==
  [][/\ (get.pc = "idle" /\ get'.pc # "idle" /\ get'.route # "list") =>
          IF MapHas(metadata, get'.id)
            THEN get'.pc = "access" /\ get'.file = <<MapGet(metadata, get'.id)>>
            ELSE get'.resp = "NotFound"
     /\ (get.pc = "idle" /\ get'.route = "list") =>
          Range(get'.file) = Range(metadata)
     /\ (get.pc = "stream" /\ get'.pc = "done" /\ Exists(disk, get.id)) =>
          get'.resp = "Download"
     /\ \A u \in Uploads :
          (up[u].pc = "quota" /\ up'[u].pc # "quota") =>
            up'[u].usage = SumSizes(metadata)]_vars

(* a download was served for a record that was past its expiresAt when     *)
(* the handler looked it up                                                *)
C36_Witness ==
  /\ get.pc = "done"
  /\ get.route = "download"
  /\ get.resp = "Download"
  /\ hist.late

(* a call of runCleanup begins a run (and not: the turn is handed to a    *)
(* run that is under way)                                                  *)
RunStarts == RunBegins /\ svc'.other = svc.other

(* C37: the lifecycle service holds at most one timer.  isRunning is true  *)
(* exactly when the timer is set; start() begins its immediate run and     *)
(* sets the timer only when the service is not running; stop() on a        *)
(* stopped service leaves it stopped without a timer; and while the        *)
(* service is stopped the timer starts no run.                             *)
C37_OneTimer ==
  [][/\ svc'.isRunning <=> svc'.cleanupTimer = "set"
     /\ (RunStarts /\ hist'.by = "start") =>
          (~svc.isRunning /\ svc'.isRunning)
     /\ (RunStarts /\ hist'.by = "timer") =>
          (svc.isRunning /\ svc'.isRunning)
     /\ ~svc.isRunning => ~ENABLED Interval]_vars

(* the service was started, its timer fired, and it was stopped while the  *)
(* run of the timer was still under way                                    *)
C37_Witness ==
  /\ ~svc.isRunning
  /\ svc.cleanupTimer = "null"
  /\ hist.by = "timer"
  /\ sw.pc # "idle"

(* C38: when the unlink of a client DELETE fails for another reason than  *)
(* a missing file, the request is answered with an error and the step      *)
(* leaves the Map and the snapshot as they were; when the file is already  *)
(* absent the handler goes on, deleteFile takes the record out of the Map, *)
(* and once the snapshot is written the request is answered with success.  *)
C38_DeleteUnlinkFailure ==
  [][/\ (del.pc = "unlink" /\ del' # del /\ faults' # faults) =>
          /\ del'.pc = "done"
          /\ del'.resp \in FaultAnswers
          /\ metadata' = metadata
          /\ snapshot' = snapshot
     /\ (del.pc = "unlink" /\ del' # del /\ ~Exists(disk, del.id)) =>
          del'.pc = "delete"
     /\ (del.pc = "delete" /\ del' # del) => ~MapHas(metadata', del.id)
     /\ (del.pc = "persist" /\ del' # del /\ faults' = faults) =>
          (del'.resp = "Deleted" /\ ~MapHas(snapshot', del.id))]_vars

(* a DELETE answered with an error after its unlink failed: the file and   *)
(* the record are still there                                              *)
C38_Witness ==
  /\ del.pc = "done"
  /\ del.resp \in FaultAnswers
  /\ MapHas(metadata, del.id)
  /\ MapHas(snapshot, del.id)
  /\ Exists(disk, del.id)

(* C39: the orphaned-file scan never deletes '.gitkeep', a name that      *)
(* starts with a dot; every file it deletes is one of the names it chose   *)
(* when it read the metadata, and none of those names had a record then.   *)
C39_ScanSparesHiddenAndKnown ==
  [][/\ (sw.pc = "ofKnown" /\ sw'.pc = "ofUnlink") =>
          \A f \in sw'.todo : f # GitKeep /\ ~MapHas(metadata, f)
     /\ (sw.pc = "ofUnlink" /\ sw'.pc = "ofUnlink") => sw'.todo \subseteq sw.todo
     /\ (sw.pc = "ofUnlink" /\ sw' # sw /\ disk' # disk) =>
          \E f \in sw.todo : f # GitKeep /\ disk' = Unlink(disk, f)]_vars

(* a run that listed '.gitkeep', a stray file and a file with a record: it *)
(* removed the stray file alone                                            *)
C39_Witness ==
  /\ sw.pc = "idle"
  /\ hist.ran
  /\ {GitKeep, StrayFile} \subseteq hist.scan
  /\ sw.result.orphanedFiles = 1
  /\ ~Exists(disk, StrayFile)
  /\ Exists(disk, GitKeep)
  /\ \E id \in MapIds(metadata) \cap hist.startDone : Exists(disk, id)

====
